---- MODULE Spec2Model ----
(***************************************************************************)
(* hyperbloom: four bloom filter variants (packed words or one byte per    *)
(* position, a central RWMutex or one Mutex per shard), their              *)
(* constructors, hashEntry, the locked and unlocked Insert / Lookup, and   *)
(* Write / Load.                                                           *)
(*                                                                         *)
(* Representation.  A uint64 word of the packed bit vector is the set of   *)
(* its one-bits (a subset of 0..63): w | (1 << b) is w \cup {b}, and       *)
(* w & (1 << b) == 0 is b \notin w.  A byte is a number in 0..255.  Go     *)
(* slices are 0-based functions.  Every method has a value receiver: the   *)
(* callee works on a copy of the struct whose slices share the caller's    *)
(* backing arrays until the callee reassigns them.                         *)
(***************************************************************************)
EXTENDS Integers, Sequences, FiniteSets, TLC

VARIABLES ctor, bf, bv, mutArr, mut, hash, file, th, inserted, saved

vars == <<ctor, bf, bv, mutArr, mut, hash, file, th, inserted, saved>>

Nil == "nil"

\* ------------------------------------------------------------------ bounds
MaxSizeArg == 258
MaxShardsArg == 4
MaxHf == 2
NumThreads == 2

\* ------------------------------------------------------- program constants
WordBits == 64
MinSize == 64

\* ----------------------------------------------------------------- helpers
RECURSIVE BitAnd(_, _)
BitAnd(a, b) ==
    IF a = 0 \/ b = 0 THEN 0
    ELSE (a % 2) * (b % 2) + 2 * BitAnd(a \div 2, b \div 2)

\* x & (x - 1) on uint64: at x = 0 the subtraction wraps to 2^64 - 1 and
\* 0 & anything is 0.
AndPred(x) == IF x = 0 THEN 0 ELSE BitAnd(x, x - 1)

ZeroSlice(n) == [i \in 0..(n - 1) |-> 0]
ZeroWords(n) == [i \in 0..(n - 1) |-> {}]
NoThread == 0
Unlocked(n) == [i \in 0..(n - 1) |-> NoThread]

Packed(kind) == kind \in {"StripedBloomFilter", "BloomFilter"}
Striped(kind) == kind \in {"StripedBloomFilter", "NaiveStripedBloomFilter"}
Kinds == {"StripedBloomFilter", "BloomFilter", "NaiveStripedBloomFilter", "NaiveBloomFilter"}

\* The nil *Filter, and a filter value; shards and shardLen are 0 in the two
\* centrally locked structs, which have no such fields.
NoFilter == [kind |-> Nil, size |-> 0, shards |-> 0, hf |-> 0, len |-> 0, shardLen |-> 0]
Filter(kind, size, shards, hf, len, shardLen) ==
    [kind |-> kind, size |-> size, shards |-> shards, hf |-> hf, len |-> len,
     shardLen |-> shardLen]

\* What a constructor call does: return (nil, error), panic, or return (&bf, nil).
Fail(msg) == [bf |-> NoFilter, err |-> msg, panic |-> FALSE]
Crash(msg) == [bf |-> NoFilter, err |-> Nil, panic |-> TRUE]
Built(f) == [bf |-> f, err |-> Nil, panic |-> FALSE]
NoOut == [bf |-> NoFilter, err |-> Nil, panic |-> FALSE]

\* ------------------------------------------------------------ constructors
\* NewStripedBloomFilter without the test bf.shards == 0.
NewStripedBloomFilterNoZeroCheck(size, hf, shards) ==
    IF size < MinSize THEN Fail("Filter size must be at least 64")
    ELSE IF AndPred(size) # 0 THEN Fail("Size must be a power of 2")
    ELSE IF AndPred(shards) # 0 THEN Fail("Shards must be a power of 2")
    ELSE IF shards > size \div WordBits THEN Fail("Shards cannot exceed size/64")
    ELSE IF shards = 0 THEN Crash("integer divide by zero")
    ELSE IF size % shards # 0 THEN Fail("Size must be a multiple of shards")
    ELSE Built(Filter("StripedBloomFilter", size, shards, hf, size \div WordBits,
                      size \div shards))

\* NewStripedBloomFilter without the test bf.shards > bf.size/64.
NewStripedBloomFilterNoShardCap(size, hf, shards) ==
    IF size < MinSize THEN Fail("Filter size must be at least 64")
    ELSE IF shards = 0 THEN Fail("Shards must be nonzero")
    ELSE IF AndPred(size) # 0 THEN Fail("Size must be a power of 2")
    ELSE IF AndPred(shards) # 0 THEN Fail("Shards must be a power of 2")
    ELSE IF size % shards # 0 THEN Fail("Size must be a multiple of shards")
    ELSE Built(Filter("StripedBloomFilter", size, shards, hf, size \div WordBits,
                      size \div shards))

NewStripedBloomFilter(size, hf, shards) ==
    IF size < MinSize THEN Fail("Filter size must be at least 64")
    ELSE IF shards = 0 THEN Fail("Shards must be nonzero")
    ELSE IF AndPred(size) # 0 THEN Fail("Size must be a power of 2")
    ELSE IF AndPred(shards) # 0 THEN Fail("Shards must be a power of 2")
    ELSE IF shards > size \div WordBits THEN Fail("Shards cannot exceed size/64")
    ELSE IF size % shards # 0 THEN Fail("Size must be a multiple of shards")
    ELSE Built(Filter("StripedBloomFilter", size, shards, hf, size \div WordBits,
                      size \div shards))

\* No shards == 0 test here: 0 passes the power-of-two and the size/64 tests,
\* and size % 0 is a run-time panic.
NewNaiveStripedBloomFilter(size, hf, shards) ==
    IF size < MinSize THEN Fail("Filter size must be at least 64")
    ELSE IF AndPred(size) # 0 THEN Fail("Size must be a power of 2")
    ELSE IF AndPred(shards) # 0 THEN Fail("Shards must be a power of 2")
    ELSE IF shards > size \div WordBits THEN Fail("Shards cannot exceed size/64")
    ELSE IF shards = 0 THEN Crash("integer divide by zero")
    ELSE IF size % shards # 0 THEN Fail("Size must be a multiple of shards")
    ELSE Built(Filter("NaiveStripedBloomFilter", size, shards, hf, size, size \div shards))

NewBloomFilter(size, hf) ==
    IF size < MinSize THEN Fail("Filter size must be at least 64")
    ELSE IF AndPred(size) # 0 THEN Fail("Size must be a power of 2")
    ELSE Built(Filter("BloomFilter", size, 0, hf, size \div WordBits, 0))

NewNaiveBloomFilter(size, hf) ==
    IF size < MinSize THEN Fail("Filter size must be at least 64")
    ELSE IF AndPred(size) # 0 THEN Fail("Size must be a power of 2")
    ELSE Built(Filter("NaiveBloomFilter", size, 0, hf, size, 0))

New(kind, size, hf, shards) ==
    CASE kind = "StripedBloomFilter" -> NewStripedBloomFilter(size, hf, shards)
      [] kind = "NaiveStripedBloomFilter" -> NewNaiveStripedBloomFilter(size, hf, shards)
      [] kind = "BloomFilter" -> NewBloomFilter(size, hf)
      [] kind = "NaiveBloomFilter" -> NewNaiveBloomFilter(size, hf)

\* ------------------------------------------------------------------ inputs
Threads == 1..NumThreads

\* Keys are byte strings; the empty string is a key a caller can pass.
Keys == {<<>>, <<97>>, <<98>>}
NonEmptyKeys == {k \in Keys : Len(k) > 0}

\* Values XXHN.Checksum64 may return (an external, deterministic function):
\* two bits of one word, and a value that only the mask folds into range.
HashVals == {5, 6, 197}

\* The file: absent, or its bytes.
NoFile == [exists |-> FALSE, bytes |-> <<>>]
File(bytes) == [exists |-> TRUE, bytes |-> bytes]
ENOENT == "no such file or directory"
NewLine == 10

\* A file of n bytes, byte 1 at the offsets in S, and a trailing line feed.
RawFile(n, S) == [j \in 1..n |-> IF j = n THEN NewLine ELSE IF (j - 1) \in S THEN 1 ELSE 0]
\* As RawFile, but without the line feed.
BareFile(n, S) == [j \in 1..n |-> IF (j - 1) \in S THEN 1 ELSE 0]
\* n ASCII digits '0' / '1' and a trailing line feed.
TextFile(n, S) == [j \in 1..(n + 1) |-> IF j = n + 1 THEN NewLine ELSE IF (j - 1) \in S THEN 49 ELSE 48]

InitSizes == {MinSize, 2 * MinSize}
InitShards == {1, 2}
InitHfs == (-1)..MaxHf

\* Constructor and arguments <<kind, size, shards>> (shards is 0 where the
\* constructor takes none).  One thread: every size and shard count above.
\* Several threads: two shards where there are shards.
SeqConfigs ==
    {<<k, n, sh>> : k \in {"StripedBloomFilter", "NaiveStripedBloomFilter"},
                    n \in InitSizes, sh \in InitShards}
    \cup {<<k, n, 0>> : k \in {"BloomFilter", "NaiveBloomFilter"}, n \in InitSizes}
ConcConfigs ==
    {<<"StripedBloomFilter", 2 * MinSize, 2>>, <<"NaiveStripedBloomFilter", 2 * MinSize, 2>>,
     <<"BloomFilter", MinSize, 0>>, <<"NaiveBloomFilter", MinSize, 0>>}

Hashes == [NonEmptyKeys -> HashVals]
\* The keys are interchangeable: the first one's hash is fixed.
ConcHashes == {h \in Hashes : h[<<97>>] = 5}
\* Two keys whose positions are two bits of one word.
RaceHashes == {h \in Hashes : h[<<97>>] = 5 /\ h[<<98>>] = 6}

ConcFiles == {File(RawFile(n + 1, {3, 70})) : n \in InitSizes}
RaceFiles == {File(RawFile(2 * MinSize + 1, {3, 70}))}
SeqFiles ==
    ConcFiles \cup {NoFile, File(<<>>), File(TextFile(MinSize, {3})), File(BareFile(2, {0})),
                    File(RawFile(MinSize + 2, {3}))}

\* --------------------------------------------------------------- hashEntry
\* pert aliases entry, so the write through pert is a write to entry.
Perturb(entry) == [entry EXCEPT ![Len(entry)] = BitAnd(entry[Len(entry)], 255)]

\* The hash preimage of each of the n calls of Checksum64.
RECURSIVE HashInputs(_, _)
HashInputs(entry, n) ==
    IF n <= 0 THEN <<>>
    ELSE LET prev == HashInputs(entry, n - 1)
             cur == IF n = 1 THEN entry ELSE prev[n - 1]
         IN  Append(prev, Perturb(cur))

hashEntry(entry, n) ==
    IF n < 0 THEN [panic |-> TRUE, out |-> <<>>]          \* make([]uint64, n), n < 0
    ELSE IF n = 0 THEN [panic |-> FALSE, out |-> <<>>]
    ELSE IF Len(entry) = 0 THEN [panic |-> TRUE, out |-> <<>>]   \* pert[-1]
    ELSE [panic |-> FALSE, out |-> [j \in 1..n |-> hash[HashInputs(entry, n)[j]]]]

\* -------------------------------------------------------------- bit store
intID(idx) == idx \div WordBits
bitID(idx) == BitAnd(idx, WordBits - 1)

\* A shard choice that puts neighbouring bits of one word in different shards.
ShardIDInterleaved(f, idx) == idx % f.shards
shardID(f, idx) == idx \div f.shardLen

\* An assignment = in place of |=.
OrBitOverwrite(w, b) == {b}
OrBit(w, b) == w \cup {b}

\* The test of getBit without its negation.
TestBitInverted(w, b) == b \notin w
TestBit(w, b) == b \in w

ByteSet(x) == x = 1

\* What getBit / getByte would read at idx from the backing array a.
IsSet(kind, a, idx) ==
    IF Packed(kind) THEN TestBit(a[intID(idx)], bitID(idx)) ELSE ByteSet(a[idx])

SetPositions(f, a) == {p \in 0..(f.size - 1) : IsSet(f.kind, a, p)}

\* The hash used as the position, unmasked.
DerivedIdxUnmasked(f, hashes, j) == hashes[j]

\* lookup_idx / insert_idx of the j-th hash (j from 1).
DerivedIdx(f, hashes, j) == BitAnd(hashes[j], f.size - 1)

\* ------------------------------------------------------- a call in progress
\* One record per thread: the program counter and the locals of the method
\* it is in.  rsize / own / rbv are the callee's copy of the receiver: own is
\* TRUE once the callee has replaced its copy's bv by an array of its own.
\* val / err are the values returned.  pre and snap record, for the claims,
\* whether the key's Insert had returned, and the store, when the call began.
\* arg is the uint64 argument of a direct call of setBit / getBit.
Idle ==
    [pc |-> "idle", op |-> Nil, entry |-> <<>>, hashes |-> <<>>, i |-> 0, idx |-> 0,
     word |-> {}, exists |-> FALSE, data |-> <<>>, rsize |-> 0, own |-> FALSE,
     rbv |-> <<>>, buf |-> <<>>, val |-> FALSE, err |-> Nil, pre |-> FALSE, snap |-> <<>>,
     arg |-> [top |-> FALSE, low |-> 0]]

OutOfRange == "Index can't be larger than filter size"
Mismatch == "File bitvector size mismatch"

Return(r, val, err) ==
    [r EXCEPT !.pc = "done", !.val = val, !.err = err, !.word = {}, !.exists = FALSE,
              !.idx = 0, !.rbv = <<>>, !.buf = <<>>]

\* An unrecovered panic ends the process.
Panic(r) == [r EXCEPT !.pc = "panic"]

Panicked == \E t \in Threads : th[t].pc = "panic"

\* The bounds test of setBit / setByte and getBit / getByte.
IndexTooLarge(f, r, idx) ==
    IF f.kind = "NaiveBloomFilter" /\ r.op \in {"Insert", "InsertAsync", "Load"}
    THEN idx >= f.len
    ELSE idx > r.rsize - 1

\* Every operation calling the locked form.
LocksAlways(op) == TRUE

\* Insert, Lookup and Load call setBit / getBit; InsertAsync and LookupAsync
\* call setBitAsync / getBitAsync.
Locks(op) == op \in {"Insert", "Lookup", "Load"}

\* Head of the for loop of Insert and InsertAsync.
InsertLoop(f, r) ==
    IF r.i < f.hf
    THEN LET idx == DerivedIdx(f, r.hashes, r.i + 1) IN
         IF IndexTooLarge(f, r, idx) THEN Return(r, FALSE, OutOfRange)
         ELSE [r EXCEPT !.idx = idx,
                        !.pc = IF Locks(r.op) THEN "lock"
                               ELSE IF Packed(f.kind) THEN "aload" ELSE "astore"]
    ELSE Return(r, FALSE, Nil)

\* Head of the for loop of Lookup and LookupAsync.
LookupLoop(f, r) ==
    IF r.i < f.hf
    THEN LET idx == DerivedIdx(f, r.hashes, r.i + 1) IN
         IF IndexTooLarge(f, r, idx) THEN Return(r, FALSE, OutOfRange)
         ELSE [r EXCEPT !.idx = idx, !.pc = IF Locks(r.op) THEN "rlock" ELSE "aread"]
    ELSE Return(r, TRUE, Nil)

\* A Lookup loop that ignores exists.
AfterGetAnyway(f, r, exists) == LookupLoop(f, [r EXCEPT !.i = @ + 1])

\* if exists, err := bf.getBit(lookup_idx); !exists { ... return false, nil }
AfterGet(f, r, exists) ==
    IF ~exists THEN Return(r, FALSE, Nil)
    ELSE LookupLoop(f, [r EXCEPT !.i = @ + 1])

Least(S) == CHOOSE x \in S : \A y \in S : x <= y

\* Head of the for loop of Load: the next i with bv[i] > 0 whose setBit call
\* passes the bounds test (the error of a call that fails it is dropped and
\* the loop goes on).
LoadLoop(f, r) ==
    LET calls == {j \in r.i..(Len(r.data) - 1) :
                     r.data[j + 1] > 0 /\ ~IndexTooLarge(f, r, j)} IN
    IF calls = {} THEN Return([r EXCEPT !.i = Len(r.data)], FALSE, Nil)
    ELSE LET i == Least(calls) IN
         IF Striped(f.kind) /\ shardID(f, i) >= f.shards THEN Panic([r EXCEPT !.i = i])
         ELSE [r EXCEPT !.i = i, !.idx = i, !.pc = "lock"]

\* Head of the for loop of Write: bf.bv[i] for i up to size - 1.
WriteLoop(f, r) ==
    IF r.i < f.size
    THEN IF r.i >= f.len THEN Panic(r) ELSE [r EXCEPT !.pc = "wread"]
    ELSE [r EXCEPT !.pc = "wflush"]

\* fmt.Sprintf("%d", b)
RECURSIVE Decimal(_)
Decimal(n) == IF n < 10 THEN <<48 + n>> ELSE Append(Decimal(n \div 10), 48 + (n % 10))

\* fmt.Sprintf("%b", w): binary digits, most significant first, no padding.
Binary(w) ==
    IF w = {} THEN <<48>>
    ELSE LET h == CHOOSE b \in w : \A c \in w : c <= b
         IN  [j \in 1..(h + 1) |-> IF (h + 1 - j) \in w THEN 49 ELSE 48]

Sprintf(kind, x) == IF Packed(kind) THEN Binary(x) ELSE Decimal(x)

\* bufio.Reader.ReadBytes('\n'): up to and including the first line feed, or
\* everything up to EOF.
ReadBytes(bytes) ==
    LET ends == {j \in 1..Len(bytes) : bytes[j] = NewLine} IN
    IF ends = {} THEN bytes ELSE SubSeq(bytes, 1, Least(ends))

\* The start of Load after the bytes are read: the size test of BloomFilter,
\* NaiveStripedBloomFilter and NaiveBloomFilter, and the two assignments to
\* the receiver copy of StripedBloomFilter (uint64(len(bv) - 1) wraps at
\* len(bv) = 0, and make panics on a length of 2^64 - 1 or 2^64 - 2).
LoadReceiver(f, r, data) ==
    IF f.kind = "StripedBloomFilter"
    THEN IF Len(data) < 2 THEN Panic(r)
         ELSE LoadLoop(f, [r EXCEPT !.data = data, !.rsize = Len(data) - 1, !.own = TRUE,
                                    !.rbv = ZeroWords(Len(data) - 2)])
    ELSE IF f.size # Len(data) - 1 THEN Return([r EXCEPT !.data = data], FALSE, Mismatch)
         ELSE LoadLoop(f, [r EXCEPT !.data = data])

\* ------------------------------------------------------------------- state
NoLock == [w |-> NoThread, r |-> {}]
NoSave == [valid |-> FALSE, data |-> <<>>, keys |-> {}]

\* The state after a constructor has returned a filter: the constructor and
\* its arguments are drawn from configs and hfs, Checksum64 from hashes, and
\* the contents of the file from files.
InitWith(configs, hfs, hashes, files) ==
    /\ \E cf \in configs, hf \in hfs :
         LET c == New(cf[1], cf[2], hf, cf[3]) IN
         /\ c.err = Nil /\ ~c.panic
         /\ ctor = [kind |-> cf[1], size |-> cf[2], hf |-> hf, shards |-> cf[3],
                    state |-> "returned", out |-> c]
         /\ bf = c.bf
         /\ bv = IF Packed(cf[1]) THEN ZeroWords(c.bf.len) ELSE ZeroSlice(c.bf.len)
         /\ mutArr = IF Striped(cf[1]) THEN Unlocked(cf[3]) ELSE <<>>
    /\ mut = NoLock
    /\ hash \in hashes
    /\ file \in files
    /\ th = [t \in Threads |-> Idle]
    /\ inserted = {}
    /\ saved = NoSave

Init == InitWith(ConcConfigs, 1..MaxHf, RaceHashes, RaceFiles)

InitLocked == InitWith(ConcConfigs, 1..MaxHf, ConcHashes, ConcFiles)

InitSeq == InitWith(SeqConfigs, InitHfs, ConcHashes, SeqFiles)

\* A thread's step ends with its record r; an Insert that has returned nil
\* adds its key to inserted.
Finish(t, r) ==
    /\ th' = [th EXCEPT ![t] = r]
    /\ inserted' = IF r.pc = "done" /\ r.op \in {"Insert", "InsertAsync"} /\ r.err = Nil
                   THEN inserted \cup {r.entry} ELSE inserted

CanCall(t) == ~Panicked /\ th[t].pc \in {"idle", "done"}

At(t, pc) == ~Panicked /\ th[t].pc = pc

\* ------------------------------------------------------------------- calls
\* The store when a call begins, recorded where a claim compares with it.
Snap(track) == IF track THEN bv ELSE <<>>

Begin(op, key) == [Idle EXCEPT !.op = op, !.entry = key, !.rsize = bf.size]

CallInsert(t, track) ==
    /\ CanCall(t)
    /\ \E key \in Keys, op \in {"Insert"} :
         LET h == hashEntry(key, bf.hf)
             r == [Begin(op, key) EXCEPT !.snap = Snap(track)] IN
         Finish(t, IF h.panic THEN Panic(r) ELSE InsertLoop(bf, [r EXCEPT !.hashes = h.out]))
    /\ UNCHANGED <<ctor, bf, bv, mutArr, mut, hash, file, saved>>

CallInsertAsync(t, track) ==
    /\ CanCall(t)
    /\ \E key \in Keys, op \in {"InsertAsync"} :
         LET h == hashEntry(key, bf.hf)
             r == [Begin(op, key) EXCEPT !.snap = Snap(track)] IN
         Finish(t, IF h.panic THEN Panic(r) ELSE InsertLoop(bf, [r EXCEPT !.hashes = h.out]))
    /\ UNCHANGED <<ctor, bf, bv, mutArr, mut, hash, file, saved>>

CallLookup(t, track) ==
    /\ CanCall(t)
    /\ \E key \in Keys, op \in {"Lookup"} :
         LET h == hashEntry(key, bf.hf)
             r == [Begin(op, key) EXCEPT !.pre = key \in inserted, !.snap = Snap(track)] IN
         Finish(t, IF h.panic THEN Panic(r) ELSE LookupLoop(bf, [r EXCEPT !.hashes = h.out]))
    /\ UNCHANGED <<ctor, bf, bv, mutArr, mut, hash, file, saved>>

CallLookupAsync(t, track) ==
    /\ CanCall(t)
    /\ \E key \in Keys, op \in {"LookupAsync"} :
         LET h == hashEntry(key, bf.hf)
             r == [Begin(op, key) EXCEPT !.pre = key \in inserted, !.snap = Snap(track)] IN
         Finish(t, IF h.panic THEN Panic(r) ELSE LookupLoop(bf, [r EXCEPT !.hashes = h.out]))
    /\ UNCHANGED <<ctor, bf, bv, mutArr, mut, hash, file, saved>>

\* os.OpenFile(O_WRONLY|O_CREATE|O_TRUNC) empties the file at once.
CallWrite(t) ==
    /\ CanCall(t)
    /\ file' = File(<<>>)
    /\ saved' = NoSave
    /\ Finish(t, WriteLoop(bf, Begin("Write", <<>>)))
    /\ UNCHANGED <<ctor, bf, bv, mutArr, mut, hash>>

\* os.Open, ReadBytes and the start of the loop.
CallLoad(t, track) ==
    /\ CanCall(t)
    /\ LET r == [Begin("Load", <<>>) EXCEPT !.snap = Snap(track)] IN
       Finish(t, IF ~file.exists THEN Return(r, FALSE, ENOENT)
                 ELSE LoadReceiver(bf, r, ReadBytes(file.bytes)))
    /\ UNCHANGED <<ctor, bf, bv, mutArr, mut, hash, file, saved>>

\* ------------------------------------------------- setBit / setByte, locked
\* A Lock that waits for nobody.
RWLockNeverHeld(m) == TRUE

\* A Lock that waits for writers only.
RWLockFreeOfWriters(m) == m.w = NoThread

\* sync.RWMutex.Lock: no writer and no reader inside.
RWLockFree(m) == m.w = NoThread /\ m.r = {}

\* A Mutex whose Lock waits for nobody.
MutexNeverHeld(m) == TRUE

\* sync.Mutex.Lock: nobody holds it.
MutexFree(m) == m = NoThread

\* bf.mutArr[shardID].Lock() or bf.mut.Lock()
SetLock(t) ==
    /\ At(t, "lock")
    /\ IF Striped(bf.kind)
       THEN /\ MutexFree(mutArr[shardID(bf, th[t].idx)])
            /\ mutArr' = [mutArr EXCEPT ![shardID(bf, th[t].idx)] = t]
            /\ mut' = mut
       ELSE /\ RWLockFree(mut)
            /\ mut' = [mut EXCEPT !.w = t]
            /\ mutArr' = mutArr
    /\ Finish(t, [th[t] EXCEPT !.pc = IF Packed(bf.kind) THEN "load" ELSE "store"])
    /\ UNCHANGED <<ctor, bf, bv, hash, file, saved>>

\* The read half of bf.bv[intID] |= (1 << bitID); bf.bv is the callee's.
SetLoad(t) ==
    /\ At(t, "load")
    /\ LET r == th[t]
           a == IF r.own THEN r.rbv ELSE bv IN
       Finish(t, IF intID(r.idx) \notin DOMAIN a THEN Panic(r)
                 ELSE [r EXCEPT !.word = a[intID(r.idx)], !.pc = "store"])
    /\ UNCHANGED <<ctor, bf, bv, mutArr, mut, hash, file, saved>>

\* The write half of bf.bv[intID] |= (1 << bitID), or bf.bv[idx] = 1.
SetStore(t) ==
    /\ At(t, "store")
    /\ LET r == th[t]
           x == IF Packed(bf.kind) THEN OrBit(r.word, bitID(r.idx)) ELSE 1
           at == IF Packed(bf.kind) THEN intID(r.idx) ELSE r.idx IN
       IF r.own
       THEN /\ bv' = bv
            /\ Finish(t, [r EXCEPT !.rbv = [@ EXCEPT ![at] = x], !.pc = "unlock"])
       ELSE /\ bv' = [bv EXCEPT ![at] = x]
            /\ Finish(t, [r EXCEPT !.pc = "unlock"])
    /\ UNCHANGED <<ctor, bf, mutArr, mut, hash, file, saved>>

\* Unlock(), return nil, and the caller's loop goes on.
SetUnlock(t) ==
    /\ At(t, "unlock")
    /\ IF Striped(bf.kind)
       THEN /\ mutArr' = [mutArr EXCEPT ![shardID(bf, th[t].idx)] = NoThread]
            /\ mut' = mut
       ELSE /\ mut' = [mut EXCEPT !.w = NoThread]
            /\ mutArr' = mutArr
    /\ LET r == [th[t] EXCEPT !.i = @ + 1, !.word = {}] IN
       Finish(t, IF r.op = "Load" THEN LoadLoop(bf, r) ELSE InsertLoop(bf, r))
    /\ UNCHANGED <<ctor, bf, bv, hash, file, saved>>

\* --------------------------------------------- setBitAsync / setByteAsync
SetLoadAsync(t) ==
    /\ At(t, "aload")
    /\ Finish(t, [th[t] EXCEPT !.word = bv[intID(th[t].idx)], !.pc = "astore"])
    /\ UNCHANGED <<ctor, bf, bv, mutArr, mut, hash, file, saved>>

SetStoreAsync(t) ==
    /\ At(t, "astore")
    /\ LET r == th[t] IN
       /\ bv' = IF Packed(bf.kind)
                THEN [bv EXCEPT ![intID(r.idx)] = OrBit(r.word, bitID(r.idx))]
                ELSE [bv EXCEPT ![r.idx] = 1]
       /\ Finish(t, InsertLoop(bf, [r EXCEPT !.i = @ + 1, !.word = {}]))
    /\ UNCHANGED <<ctor, bf, mutArr, mut, hash, file, saved>>

\* ------------------------------------------------- getBit / getByte, locked
\* bf.mutArr[shardID].Lock() or bf.mut.RLock()
GetLock(t) ==
    /\ At(t, "rlock")
    /\ IF Striped(bf.kind)
       THEN /\ MutexFree(mutArr[shardID(bf, th[t].idx)])
            /\ mutArr' = [mutArr EXCEPT ![shardID(bf, th[t].idx)] = t]
            /\ mut' = mut
       ELSE /\ mut.w = NoThread
            /\ mut' = [mut EXCEPT !.r = @ \cup {t}]
            /\ mutArr' = mutArr
    /\ Finish(t, [th[t] EXCEPT !.pc = "read"])
    /\ UNCHANGED <<ctor, bf, bv, hash, file, saved>>

GetRead(t) ==
    /\ At(t, "read")
    /\ Finish(t, [th[t] EXCEPT !.exists = IsSet(bf.kind, bv, th[t].idx), !.pc = "runlock"])
    /\ UNCHANGED <<ctor, bf, bv, mutArr, mut, hash, file, saved>>

GetUnlock(t) ==
    /\ At(t, "runlock")
    /\ IF Striped(bf.kind)
       THEN /\ mutArr' = [mutArr EXCEPT ![shardID(bf, th[t].idx)] = NoThread]
            /\ mut' = mut
       ELSE /\ mut' = [mut EXCEPT !.r = @ \ {t}]
            /\ mutArr' = mutArr
    /\ Finish(t, AfterGet(bf, [th[t] EXCEPT !.exists = FALSE], th[t].exists))
    /\ UNCHANGED <<ctor, bf, bv, hash, file, saved>>

\* --------------------------------------------- getBitAsync / getByteAsync
GetReadAsync(t) ==
    /\ At(t, "aread")
    /\ Finish(t, AfterGet(bf, th[t], IsSet(bf.kind, bv, th[t].idx)))
    /\ UNCHANGED <<ctor, bf, bv, mutArr, mut, hash, file, saved>>

\* ---------------------------------------------------------------- Write
\* bin := fmt.Sprintf(.., bf.bv[i]); b.Write([]byte(bin))
WriteRead(t) ==
    /\ At(t, "wread")
    /\ LET r == th[t] IN
       Finish(t, WriteLoop(bf, [r EXCEPT !.buf = @ \o Sprintf(bf.kind, bv[r.i]), !.i = @ + 1]))
    /\ UNCHANGED <<ctor, bf, bv, mutArr, mut, hash, file, saved>>

\* f.Write(bv); return nil.  Where a claim compares with it, saved records
\* what was written and the keys whose Insert had returned.
WriteFlush(t, track) ==
    /\ At(t, "wflush")
    /\ file' = File(th[t].buf)
    /\ saved' = IF track
                THEN [valid |-> TRUE, data |-> th[t].buf, keys |-> inserted]
                ELSE NoSave
    /\ Finish(t, Return(th[t], FALSE, Nil))
    /\ UNCHANGED <<ctor, bf, bv, mutArr, mut, hash>>

\* The caller constructs a fresh filter with the same arguments and goes on
\* with it (no call is in progress).
Fresh ==
    /\ \A t \in Threads : CanCall(t)
    /\ saved.valid
    /\ inserted # {}
    /\ LET c == New(ctor.kind, ctor.size, ctor.hf, ctor.shards) IN
       /\ bf' = c.bf
       /\ bv' = IF Packed(ctor.kind) THEN ZeroWords(c.bf.len) ELSE ZeroSlice(c.bf.len)
    /\ inserted' = {}
    /\ th' = [t \in Threads |-> Idle]
    /\ UNCHANGED <<ctor, mutArr, mut, hash, file, saved>>

\* ------------------------------------- setBit / getBit called on their own
\* A uint64 argument: top is bit 63 and low the value of the other bits (the
\* values drawn keep low small).
Wide(top, low) == [top |-> top, low |-> low]

\* idx > n and idx >= n on uint64, for a small n.
UGreater(p, n) == p.top \/ p.low > n
UGreaterEq(p, n) == p.top \/ p.low >= n

\* int(idx) >= n: with bit 63 set, int(idx) is negative.
IntGreaterEq(p, n) == ~p.top /\ p.low >= n

\* The bounds test at the head of setBit / setByte (set) and of getBit /
\* getByte (~set), and of their Async forms, on a uint64.
StoreTooLarge(f, set, p) ==
    IF f.kind = "NaiveBloomFilter"
    THEN IF set THEN IntGreaterEq(p, f.len) ELSE UGreaterEq(p, f.size)
    ELSE UGreater(p, f.size - 1)

Indexes(f) == {Wide(top, low) : top \in BOOLEAN, low \in {0, 5, f.size - 1, f.size, f.size + 1}}

\* The call runs as the body of a last iteration: i = hf ends the loop of
\* the steps it shares with Insert and Lookup.  An index that passes the
\* test with bit 63 set is beyond every slice: bf.bv[idx] panics.
Direct(op, p, pc) ==
    LET r == [Begin(op, <<>>) EXCEPT !.arg = p, !.i = bf.hf, !.snap = bv] IN
    IF StoreTooLarge(bf, op \in {"setBit", "setBitAsync"}, p)
    THEN Return(r, FALSE, OutOfRange)
    ELSE IF p.top \/ p.low >= bf.size THEN Panic(r)
    ELSE [r EXCEPT !.idx = p.low, !.pc = pc]

CallSet(t) ==
    /\ CanCall(t)
    /\ \E p \in Indexes(bf) : Finish(t, Direct("setBit", p, "lock"))
    /\ UNCHANGED <<ctor, bf, bv, mutArr, mut, hash, file, saved>>

CallSetAsync(t) ==
    /\ CanCall(t)
    /\ \E p \in Indexes(bf) :
         Finish(t, Direct("setBitAsync", p, IF Packed(bf.kind) THEN "aload" ELSE "astore"))
    /\ UNCHANGED <<ctor, bf, bv, mutArr, mut, hash, file, saved>>

CallGet(t) ==
    /\ CanCall(t)
    /\ \E p \in Indexes(bf) : Finish(t, Direct("getBit", p, "rlock"))
    /\ UNCHANGED <<ctor, bf, bv, mutArr, mut, hash, file, saved>>

CallGetAsync(t) ==
    /\ CanCall(t)
    /\ \E p \in Indexes(bf) : Finish(t, Direct("getBitAsync", p, "aread"))
    /\ UNCHANGED <<ctor, bf, bv, mutArr, mut, hash, file, saved>>

\* ---------------------------------------------------------- specifications
\* Any threads; the locked and the unlocked operations on the store, with no
\* exclusivity arranged by the caller.
Next ==
    \E t \in Threads :
        \/ CallInsert(t, FALSE) \/ CallInsertAsync(t, FALSE) \/ CallLookup(t, FALSE)
        \/ CallLookupAsync(t, FALSE) \/ CallLoad(t, FALSE)
        \/ SetLock(t) \/ SetLoad(t) \/ SetStore(t) \/ SetUnlock(t)
        \/ SetLoadAsync(t) \/ SetStoreAsync(t)
        \/ GetLock(t) \/ GetRead(t) \/ GetUnlock(t) \/ GetReadAsync(t)

Spec == Init /\ [][Next]_vars

\* Any threads, the locked operations only.
NextLocked ==
    \E t \in Threads :
        \/ CallInsert(t, FALSE) \/ CallLookup(t, FALSE) \/ CallLoad(t, FALSE)
        \/ SetLock(t) \/ SetLoad(t) \/ SetStore(t) \/ SetUnlock(t)
        \/ GetLock(t) \/ GetRead(t) \/ GetUnlock(t)

SpecLocked == InitLocked /\ [][NextLocked]_vars

\* One thread, every operation, and a fresh filter after a Write.
NextSeq ==
    \/ Fresh
    \/ \E t \in {1} :
        \/ CallInsert(t, TRUE) \/ CallInsertAsync(t, TRUE) \/ CallLookup(t, TRUE)
        \/ CallLookupAsync(t, TRUE) \/ CallWrite(t) \/ CallLoad(t, TRUE)
        \/ SetLock(t) \/ SetLoad(t) \/ SetStore(t) \/ SetUnlock(t)
        \/ SetLoadAsync(t) \/ SetStoreAsync(t)
        \/ GetLock(t) \/ GetRead(t) \/ GetUnlock(t) \/ GetReadAsync(t)
        \/ WriteRead(t) \/ WriteFlush(t, TRUE)

SpecSeq == InitSeq /\ [][NextSeq]_vars

\* The constructors, on arguments drawn from 0..MaxSizeArg, InitHfs and
\* 0..MaxShardsArg.
InitNew ==
    /\ \E kind \in Kinds, size \in 0..MaxSizeArg, hf \in InitHfs, shards \in 0..MaxShardsArg :
         /\ Striped(kind) \/ shards = 0
         /\ ctor = [kind |-> kind, size |-> size, hf |-> hf, shards |-> shards,
                    state |-> "called", out |-> NoOut]
    /\ bf = NoFilter
    /\ bv = <<>>
    /\ mutArr = <<>>
    /\ mut = NoLock
    /\ hash = <<>>
    /\ file = NoFile
    /\ th = [t \in Threads |-> Idle]
    /\ inserted = {}
    /\ saved = NoSave

Construct ==
    /\ ctor.state = "called"
    /\ LET c == New(ctor.kind, ctor.size, ctor.hf, ctor.shards) IN
       /\ ctor' = [ctor EXCEPT !.state = IF c.panic THEN "panic" ELSE "returned", !.out = c]
       /\ bf' = c.bf
       /\ bv' = IF c.bf = NoFilter THEN <<>>
                ELSE IF Packed(ctor.kind) THEN ZeroWords(c.bf.len) ELSE ZeroSlice(c.bf.len)
       /\ mutArr' = IF c.bf # NoFilter /\ Striped(ctor.kind) THEN Unlocked(ctor.shards) ELSE <<>>
    /\ UNCHANGED <<mut, hash, file, th, inserted, saved>>

NextNew == Construct

SpecNew == InitNew /\ [][NextNew]_vars

\* The locked operations under the scheduling of the Go runtime: a thread
\* that can take its next step takes it, and a thread waiting in Lock or
\* RLock gets the lock if it is free again and again (sync.Mutex hands the
\* lock to a waiter that has starved; a waiting writer of sync.RWMutex holds
\* back new readers).  A caller need not make another call.
Step(t) == SetLoad(t) \/ SetStore(t) \/ SetUnlock(t) \/ GetRead(t) \/ GetUnlock(t)

Fairness ==
    \A t \in Threads : WF_vars(Step(t)) /\ SF_vars(SetLock(t)) /\ SF_vars(GetLock(t))

SpecLockedFair == InitLocked /\ [][NextLocked]_vars /\ Fairness

\* Any threads, locked Inserts only, on a filter nothing else writes.
InitInsert == InitWith(ConcConfigs, 1..MaxHf, Hashes, {NoFile})

NextInsert ==
    \E t \in Threads :
        \/ CallInsert(t, TRUE)
        \/ SetLock(t) \/ SetLoad(t) \/ SetStore(t) \/ SetUnlock(t)

SpecInsert == InitInsert /\ [][NextInsert]_vars

\* StripedBloomFilter alone, built from every size and shard count within the
\* bounds the constructor accepts, under concurrent Inserts.
StripedConfigs ==
    {<<"StripedBloomFilter", n, sh>> : n \in 0..MaxSizeArg, sh \in 0..MaxShardsArg}

InitStriped == InitWith(StripedConfigs, {1}, Hashes, {NoFile})

SpecStriped == InitStriped /\ [][NextInsert]_vars

\* One thread calling setBit / getBit and their Async forms with any index.
InitStore == InitWith(SeqConfigs, {1}, RaceHashes, {NoFile})

NextStore ==
    \E t \in {1} :
        \/ CallSet(t) \/ CallSetAsync(t) \/ CallGet(t) \/ CallGetAsync(t)
        \/ SetLock(t) \/ SetLoad(t) \/ SetStore(t) \/ SetUnlock(t)
        \/ SetLoadAsync(t) \/ SetStoreAsync(t)
        \/ GetLock(t) \/ GetRead(t) \/ GetUnlock(t) \/ GetReadAsync(t)

SpecStore == InitStore /\ [][NextStore]_vars

\* ------------------------------------------------------------------ claims
KeyA == <<97>>
KeyB == <<98>>

Returned(t, op) == th[t].pc = "done" /\ th[t].op = op

\* The positions Insert and Lookup derive for key (the call does not panic).
Positions(key) ==
    {DerivedIdx(bf, hashEntry(key, bf.hf).out, j) : j \in 1..bf.hf}

AllSet(a, key) == \A p \in Positions(key) : IsSet(bf.kind, a, p)

\* C1: with one thread, a Lookup of a key whose Insert (or InsertAsync) had
\* returned nil before the Lookup began returns (true, nil), in each of the
\* four variants.
C1_NoFalseNegativeSequential ==
    \A t \in Threads :
        (th[t].pc = "done" /\ th[t].op \in {"Lookup", "LookupAsync"} /\ th[t].pre)
            => (th[t].val = TRUE /\ th[t].err = Nil)

\* Both keys inserted, one after the other, and a Lookup of one has returned.
C1_Witness ==
    /\ Returned(1, "Lookup") /\ th[1].pre /\ th[1].val
    /\ inserted = {KeyA, KeyB}
    /\ Positions(KeyA) # Positions(KeyB)

\* C2: on a StripedBloomFilter whose threads run the locked operations in any
\* interleaving, every derived position of every key whose Insert has
\* returned is set, and a Lookup of such a key returns true.
C2_StripedInsertsLoseNoBit ==
    bf.kind = "StripedBloomFilter" =>
        /\ \A key \in inserted : AllSet(bv, key)
        /\ \A t \in Threads : (Returned(t, "Lookup") /\ th[t].pre) => th[t].val

\* Two threads have each returned from the Insert of a key of its own, and the
\* two keys' positions are two bits of one word.
C2_Witness ==
    /\ bf.kind = "StripedBloomFilter"
    /\ Returned(1, "Insert") /\ Returned(2, "Insert")
    /\ th[1].entry # th[2].entry
    /\ inserted = {KeyA, KeyB}
    /\ \E p \in Positions(KeyA), q \in Positions(KeyB) :
         p # q /\ intID(p) = intID(q) /\ {bitID(p), bitID(q)} \subseteq bv[intID(p)]

\* C3: with the locked operations of any variant, a Lookup of a key whose
\* Insert had returned before the Lookup began returns (true, nil), whatever
\* Insert and Load calls other threads run meanwhile.
C3_NoFalseNegativeUnderMutation ==
    \A t \in Threads :
        (Returned(t, "Lookup") /\ th[t].pre) => (th[t].val = TRUE /\ th[t].err = Nil)

\* Such a Lookup has returned while another thread is inside the critical
\* section of a set made by Insert or Load.
C3_Witness ==
    \E t, u \in Threads :
        /\ t # u
        /\ Returned(t, "Lookup") /\ th[t].pre /\ th[t].val
        /\ th[u].op \in {"Insert", "Load"} /\ th[u].pc \in {"load", "store", "unlock"}

RECURSIVE IsPowerOfTwo(_)
IsPowerOfTwo(x) == x = 1 \/ (x > 1 /\ x % 2 = 0 /\ IsPowerOfTwo(x \div 2))

ValidSize(size) == size >= 64 /\ IsPowerOfTwo(size)

ValidStriped(size, shards) ==
    /\ ValidSize(size) /\ IsPowerOfTwo(shards)
    /\ shards <= size \div 64 /\ size % shards = 0

ReturnedFilter(out) == out.err = Nil /\ ~out.panic /\ out.bf # NoFilter
ReturnedError(out) == out.err # Nil /\ ~out.panic /\ out.bf = NoFilter

C5_RoundTrip ==
    \A t \in Threads :
        /\ th[t].op = "Write" => th[t].pc # "panic"
        /\ (Returned(t, "Load") /\ saved.valid /\ th[t].data = saved.data
              /\ SetPositions(bf, th[t].snap) = {})
             => (th[t].err = Nil /\ \A key \in saved.keys : AllSet(bv, key))

\* The positions a stream flags, read as Load reads it: a byte above zero.
Flagged(data) == {p \in 0..(bf.size - 1) : p < Len(data) /\ data[p + 1] > 0}

\* C6: after a Load that returned nil, the positions set in the caller's
\* filter are those set before the Load together with those the stream flags.
C6_LoadIsOrMerge ==
    \A t \in Threads :
        (Returned(t, "Load") /\ th[t].err = Nil)
            => SetPositions(bf, bv) = SetPositions(bf, th[t].snap) \cup Flagged(th[t].data)

\* C7: a Load of a stream whose number of positions (the bytes before the
\* line feed) differs from the filter's size returns the size-mismatch error
\* and leaves the filter as it was.
C7_LoadSizeValidation ==
    \A t \in Threads :
        (Returned(t, "Load") /\ th[t].err # ENOENT /\ Len(th[t].data) - 1 # bf.size)
            => (th[t].err = Mismatch /\ bv = th[t].snap /\ bf = ctor.out.bf)

\* C8: for k > 1 the k calls of the hash made for one key do not all get the
\* same preimage.
C8_HashInputsDiffer ==
    \A t \in Threads :
        (th[t].op \in {"Insert", "InsertAsync", "Lookup", "LookupAsync"}
           /\ th[t].pc # "panic" /\ bf.hf > 1)
            => \E i, j \in 1..bf.hf :
                 HashInputs(th[t].entry, bf.hf)[i] # HashInputs(th[t].entry, bf.hf)[j]

\* C9: with one thread, Lookup and LookupAsync return (true, nil) when every
\* derived position is set and (false, nil) otherwise, stop at the first
\* position that is not set, and leave the store as it was.
C9_LookupResult ==
    \A t \in Threads :
        (th[t].pc = "done" /\ th[t].op \in {"Lookup", "LookupAsync"}) =>
            LET h == hashEntry(th[t].entry, bf.hf).out
                set(j) == IsSet(bf.kind, bv, DerivedIdx(bf, h, j))
            IN  /\ th[t].err = Nil
                /\ th[t].val = (\A j \in 1..bf.hf : set(j))
                /\ ~th[t].val => (~set(th[t].i + 1) /\ \A j \in 1..th[t].i : set(j))
                /\ th[t].val => th[t].i = bf.hf
                /\ bv = th[t].snap

\* A Lookup of a key that was not inserted has returned false from a filter
\* that holds another key.
C9_Witness ==
    /\ th[1].pc = "done" /\ th[1].op \in {"Lookup", "LookupAsync"}
    /\ ~th[1].val /\ inserted # {} /\ bf.hf = MaxHf

StaleStore(t) ==
    /\ th[t].pc \in {"store", "astore"} /\ Packed(bf.kind)
    /\ th[t].word # bv[intID(th[t].idx)]

InSet(t) == th[t].pc \in {"load", "store", "unlock"}
InGet(t) == th[t].pc \in {"read", "runlock"}

\* C11: in BloomFilter and NaiveBloomFilter a thread is inside a set exactly
\* while it holds the writer side of the one RWMutex and inside a get exactly
\* while it holds the reader side; a thread inside a set excludes every other
\* thread from any set and any get.
C11_CentralizedLocking ==
    ~Striped(bf.kind) =>
        /\ \A t \in Threads : (InSet(t) <=> mut.w = t) /\ (InGet(t) <=> t \in mut.r)
        /\ mut.w # NoThread => mut.r = {}
        /\ \A t, u \in Threads : (t # u /\ InSet(t)) => (~InSet(u) /\ ~InGet(u))

\* Two gets are inside at once, on a filter a set has written.
C11_Witness ==
    /\ ~Striped(bf.kind) /\ inserted # {}
    /\ InGet(1) /\ InGet(2) /\ mut.r = {1, 2}

Inside(t) == InSet(t) \/ InGet(t)

\* The shard of the position thread t is working on.
ShardOf(t) == shardID(bf, th[t].idx)

SetAll(kind, a, P) ==
    IF Packed(kind)
    THEN [w \in DOMAIN a |-> a[w] \cup {p % WordBits : p \in {q \in P : q \div WordBits = w}}]
    ELSE [i \in DOMAIN a |-> IF i \in P THEN 1 ELSE a[i]]

AsyncOps == {"InsertAsync", "LookupAsync"}
NoLockHeld == mut = NoLock /\ \A s \in DOMAIN mutArr : mutArr[s] = NoThread

\* C13: with one thread, Insert and InsertAsync started on the same store with
\* the same key end alike (nil and the store with the key's positions set, or
\* the same panic), Lookup and LookupAsync return the same value and error
\* and leave the store as it was, and no lock is held at any point of an
\* InsertAsync or LookupAsync.
C13_AsyncEquivalence ==
    \A t \in {1} :
        LET r == th[t] IN
        /\ r.op \in {"Insert", "InsertAsync", "Lookup", "LookupAsync"} =>
             /\ r.pc = "panic" <=> hashEntry(r.entry, bf.hf).panic
             /\ r.pc = "done" => r.err = Nil
        /\ (r.op \in {"Insert", "InsertAsync"} /\ r.pc = "done") =>
             bv = SetAll(bf.kind, r.snap, Positions(r.entry))
        /\ (r.op \in {"Lookup", "LookupAsync"} /\ r.pc = "done") =>
             /\ r.val = (\A p \in Positions(r.entry) : IsSet(bf.kind, r.snap, p))
             /\ bv = r.snap
        /\ r.op \in AsyncOps => NoLockHeld

\* An InsertAsync has returned after setting a second bit of a word.
C13_Witness ==
    /\ Returned(1, "InsertAsync") /\ th[1].err = Nil /\ Packed(bf.kind)
    /\ bv # th[1].snap /\ SetPositions(bf, th[1].snap) # {}
    /\ \E w \in DOMAIN bv : Cardinality(bv[w]) > 1

\* C14: a filter a constructor has returned has hf >= 1, so a Lookup or
\* LookupAsync called on it while no position is set returns false.
C14_PositiveHashCount ==
    \A t \in Threads :
        th[t].op \in {"Lookup", "LookupAsync"} =>
            /\ bf.hf >= 1
            /\ (th[t].pc = "done" /\ SetPositions(bf, th[t].snap) = {}) => ~th[t].val

SetOps == {"setBit", "setBitAsync"}
GetOps == {"getBit", "getBitAsync"}

\* C15: in each variant and in the locked and the unlocked form, set(p) and
\* get(p) never fault; for p < size they return nil (set: p then reads as
\* set; get: the value read is what the store held), and for every uint64
\* p >= size they return the out-of-range error with the store as it was and
\* no lock held.
C15_BoundsContract ==
    \A t \in Threads :
        LET r == th[t] IN
        r.op \in SetOps \cup GetOps =>
            /\ r.pc # "panic"
            /\ r.pc = "done" =>
                 IF UGreaterEq(r.arg, bf.size)
                 THEN r.err = OutOfRange /\ bv = r.snap /\ NoLockHeld
                 ELSE /\ r.err = Nil /\ NoLockHeld
                      /\ r.op \in SetOps => IsSet(bf.kind, bv, r.arg.low)
                      /\ r.op \in GetOps => r.val = IsSet(bf.kind, r.snap, r.arg.low)

\* C16: Write completes in every variant, and the file it leaves holds size
\* entries in position order, entry i the digit 1 where position i is set and
\* the digit 0 where it is not.
C16_SaveFormat ==
    \A t \in Threads :
        th[t].op = "Write" =>
            /\ th[t].pc # "panic"
            /\ th[t].pc = "done" =>
                 /\ th[t].err = Nil /\ file.exists
                 /\ Len(file.bytes) = bf.size
                 /\ \A i \in 0..(bf.size - 1) :
                      file.bytes[i + 1] = (IF IsSet(bf.kind, bv, i) THEN 49 ELSE 48)

\* The indexes i of Load's loop at which bf.setBit(uint64(i)) is called
\* (bv[i] > 0) and returns the out-of-range error.
RefusedSets(f, r) ==
    {j \in 0..(Len(r.data) - 1) : r.data[j + 1] > 0 /\ IndexTooLarge(f, r, j)}

\* The indexes at which Load has called bf.setBit(uint64(i)) so far: i is the
\* loop index, and a Load that returned an error before its loop called none.
SetCalls(r) ==
    IF r.err # Nil THEN {}
    ELSE {j \in 0..(Len(r.data) - 1) : j <= r.i /\ r.data[j + 1] > 0}

\* C17: Load hands set only positions below the filter's size, and a Load
\* during which a set returned an error does not return nil.
C17_NoSwallowedErrors ==
    \A t \in Threads :
        th[t].op = "Load" =>
            /\ \A j \in SetCalls(th[t]) : j < bf.size
            /\ (th[t].pc = "done" /\ th[t].err = Nil) => RefusedSets(bf, th[t]) = {}

KeyOps == {"Insert", "InsertAsync", "Lookup", "LookupAsync"}
AccessPcs == {"lock", "load", "store", "unlock", "aload", "astore",
              "rlock", "read", "runlock", "aread"}

\* C18: every position Insert, InsertAsync, Lookup and LookupAsync hand to
\* set / get is the hash modulo size, a position below size, and none of the
\* four ever returns the out-of-range error.
C18_DerivedInRange ==
    \A t \in Threads :
        th[t].op \in KeyOps =>
            /\ th[t].err # OutOfRange
            /\ th[t].pc \in AccessPcs =>
                 /\ th[t].idx = th[t].hashes[th[t].i + 1] % bf.size
                 /\ th[t].idx \in 0..(bf.size - 1)

\* A Lookup of an inserted key whose hash is above size has returned nil.
C18_Witness ==
    /\ th[1].pc = "done" /\ th[1].op \in {"Lookup", "LookupAsync"} /\ th[1].err = Nil
    /\ th[1].hashes # <<>> /\ th[1].hashes[1] >= bf.size
    /\ th[1].entry \in inserted

\* The locks thread t holds.
HeldBy(t) ==
    {<<"mutArr", s>> : s \in {x \in DOMAIN mutArr : mutArr[x] = t}}
    \cup (IF mut.w = t THEN {<<"mut", "w">>} ELSE {})
    \cup (IF t \in mut.r THEN {<<"mut", "r">>} ELSE {})

\* Thread t is in a call that has neither returned nor panicked, and waits
\* for a lock that is held.
Running(t) == th[t].pc \notin {"idle", "done", "panic"}
Blocked(t) ==
    \/ /\ th[t].pc = "lock"
       /\ IF Striped(bf.kind) THEN ~MutexFree(mutArr[ShardOf(t)]) ELSE ~RWLockFree(mut)
    \/ /\ th[t].pc = "rlock"
       /\ IF Striped(bf.kind) THEN ~MutexFree(mutArr[ShardOf(t)]) ELSE mut.w # NoThread

\* A thread holds a lock exactly while it is between the Lock and the Unlock
\* around one access, and then one lock only: none at a loop head, none while
\* it waits for a lock, none after any return.
LockDiscipline ==
    \A t \in Threads :
        /\ Cardinality(HeldBy(t)) <= 1
        /\ HeldBy(t) # {} <=> Inside(t)

\* While calls are running and no panic has ended the process, one of them
\* can take a step.
NoDeadlock ==
    (~Panicked /\ \E t \in Threads : Running(t)) => \E t \in Threads : Running(t) /\ ~Blocked(t)

Started(t) == th[t].op \in {"Insert", "Lookup"} /\ th[t].pc \notin {"idle", "done"}

\* C19: the lock discipline holds, no state of the locked operations is a
\* deadlock, and under fair scheduling every Insert and Lookup that has
\* started returns.
C19_LockDisciplineAndProgress ==
    /\ [](LockDiscipline /\ NoDeadlock)
    /\ \A t \in Threads : Started(t) ~> (th[t].pc = "done")

\* C20: with the locked operations in any interleaving, a Lookup that has
\* returned true has every derived position of its key set in the store when
\* it returns and in every later state, whether or not the key's Insert had
\* returned when the Lookup began.
C20_TornViewsErrToFalse ==
    \A t \in Threads :
        (Returned(t, "Lookup") /\ th[t].val) => AllSet(bv, th[t].entry)

\* A Lookup that began before its key's Insert had returned has returned
\* true while that Insert, by another thread, is still between two positions.
C20_Witness ==
    \E t, u \in Threads :
        /\ t # u /\ bf.hf = MaxHf
        /\ Returned(t, "Lookup") /\ th[t].val /\ ~th[t].pre
        /\ th[u].op = "Insert" /\ th[u].entry = th[t].entry /\ Running(u) /\ th[u].i = 1

\* A Lookup has returned false for a key whose Insert another thread has not
\* finished.
C20_EarlierFalse ==
    \E t, u \in Threads :
        /\ t # u
        /\ Returned(t, "Lookup") /\ ~th[t].val
        /\ th[u].op = "Insert" /\ th[u].entry = th[t].entry /\ Running(u)

\* C21: a filter no operation has touched has no position set; a set(p) that
\* returns nil, locked or not, leaves the store it found with position p set
\* and every other position, those of p's word included, as it was; and a
\* get(p) returns true exactly when position p was set.
C21_SetFrame ==
    \A t \in Threads :
        LET r == th[t] IN
        /\ (\A u \in Threads : th[u].op = Nil) => SetPositions(bf, bv) = {}
        /\ (r.op \in SetOps /\ r.pc = "done" /\ r.err = Nil) =>
             /\ bv = SetAll(bf.kind, r.snap, {r.arg.low})
             /\ SetPositions(bf, bv) = SetPositions(bf, r.snap) \cup {r.arg.low}
        /\ (r.op \in GetOps /\ r.pc = "done" /\ r.err = Nil) =>
             r.val = (r.arg.low \in SetPositions(bf, r.snap))

\* A set has returned after adding a second bit to a word, and the first bit
\* is still set.
C21_Witness ==
    /\ Packed(bf.kind) /\ th[1].op \in SetOps /\ th[1].pc = "done" /\ th[1].err = Nil
    /\ th[1].arg.low = 5 /\ SetPositions(bf, th[1].snap) = {0, bf.size - 1}
    /\ bv[0] = {0, 5}

\* The store of a fresh filter with the positions of every key of K set.
StoreOf(K) ==
    SetAll(bf.kind, IF Packed(bf.kind) THEN ZeroWords(bf.len) ELSE ZeroSlice(bf.len),
           UNION {Positions(key) : key \in K})

\* C22: whenever no call is in progress, the store is the fresh store with
\* the positions of the keys whose Insert has returned nil, whatever number of
\* times, in whatever order and under whatever interleaving they were
\* inserted (so a second Insert of a key, and the other order of two Inserts,
\* end in the same store); and an Insert that has returned has lost nothing
\* of the store it found.
C22_InsertIdempotentCommutative ==
    /\ (\A t \in Threads : th[t].pc \in {"idle", "done"}) => bv = StoreOf(inserted)
    /\ \A t \in Threads :
         (Returned(t, "Insert") /\ th[t].err = Nil) =>
             (SetPositions(bf, th[t].snap) \cup Positions(th[t].entry)) \subseteq SetPositions(bf, bv)

\* Both threads have inserted one key, a second time for one of them, after
\* the other key was inserted, and the two keys share a word.
C22_Witness ==
    /\ Returned(1, "Insert") /\ Returned(2, "Insert")
    /\ th[1].entry = KeyA /\ th[2].entry = KeyA
    /\ inserted = {KeyA, KeyB}
    /\ AllSet(th[1].snap, KeyA) /\ AllSet(th[1].snap, KeyB)
    /\ \E p \in Positions(KeyA), q \in Positions(KeyB) : p # q /\ p \div WordBits = q \div WordBits

\* C23: the two striped constructors validate identically.  For every
\* (size, hf, shards), shards = 0 included, a finished or aborted call of
\* NewNaiveStripedBloomFilter has not panicked, and it returned a filter
\* exactly when NewStripedBloomFilter returns one for the same arguments,
\* with the same size, shard count and shardLen; otherwise both return a nil
\* filter and an error.  (Violated: NewNaiveStripedBloomFilter(64, 1, 0)
\* panics in size % shards, NewStripedBloomFilter(64, 1, 0) returns an error.)
C23_StripedConstructorsAgree ==
    (ctor.kind = "NaiveStripedBloomFilter" /\ ctor.state # "called") =>
        LET n == ctor.out
            s == NewStripedBloomFilter(ctor.size, ctor.hf, ctor.shards)
        IN  /\ ~n.panic /\ ~s.panic
            /\ (n.bf = NoFilter) = (s.bf = NoFilter)
            /\ n.bf = NoFilter => (n.err # Nil /\ s.err # Nil)
            /\ n.bf # NoFilter =>
                 /\ n.err = Nil /\ s.err = Nil
                 /\ n.bf.size = s.bf.size
                 /\ n.bf.shards = s.bf.shards
                 /\ n.bf.shardLen = s.bf.shardLen

\* The shards of the positions stored in word w of bf.bv.
WordShards(w) == {shardID(bf, p) : p \in (w * WordBits)..(w * WordBits + WordBits - 1)}

\* Thread t is between the read and the write of bf.bv[intID] |= (1 << bitID).
InReadModifyWrite(t) == th[t].pc \in {"load", "store"}

\* C24: in every StripedBloomFilter a constructor call returned, shardLen is
\* a multiple of 64 and all positions stored in one 64-bit word map to one
\* shard; a thread in the read-modify-write of a word holds the lock of that
\* one shard, so no two threads are in the read-modify-write of one word and
\* no word is read-modified-written under two different shard locks.
C24_WordShardAlignment ==
    bf.kind = "StripedBloomFilter" =>
        /\ bf.shardLen % WordBits = 0
        /\ \A w \in DOMAIN bv : Cardinality(WordShards(w)) = 1
        /\ \A t \in Threads :
             InReadModifyWrite(t) =>
                 \A s \in WordShards(intID(th[t].idx)) : mutArr[s] = t
        /\ \A t, u \in Threads :
             (t # u /\ InReadModifyWrite(t) /\ InReadModifyWrite(u)) =>
                 intID(th[t].idx) # intID(th[u].idx)

\* In a filter of 256 bits in 2 shards of 128, thread 1 is about to write
\* word 0 for bit 5 while thread 2 waits for the lock to set bit 6 of the same
\* word; the other shard's lock is free.
C24_Witness ==
    /\ bf.kind = "StripedBloomFilter" /\ bf.size = 4 * MinSize
    /\ bf.shards = 2 /\ bf.shardLen = 2 * WordBits
    /\ th[1].pc = "store" /\ th[2].pc = "lock"
    /\ th[1].idx = 5 /\ th[2].idx = 6
    /\ mutArr[0] = 1 /\ mutArr[1] = NoThread

\* C25: total key domain.  For every filter a constructor returned and every
\* key, the empty one included, the hashEntry call of Insert, InsertAsync,
\* Lookup and LookupAsync returns exactly bf.hf values, and none of the four
\* ends in a runtime panic: each returns a result or an error value.  (Violated: for the empty key hashEntry
\* writes pert[len(pert)-1], index -1, and the call panics; for a filter built
\* with hf < 0 make([]uint64, n) panics for every key.)
C25_TotalKeyDomain ==
    \A t \in Threads :
        th[t].op \in KeyOps =>
            /\ th[t].pc # "panic"
            /\ Len(th[t].hashes) = bf.hf

====
